---- MODULE Spec2Model ----
(***************************************************************************)
(* The three reporters of github-tools: list_ignored_files.py,             *)
(* list_repo_changes.py and list_sibling_repos.py.                         *)
(*                                                                         *)
(* A Python str is a sequence of one-character strings; a character        *)
(* outside ASCII is written by its code point ("u5DEE").                   *)
(***************************************************************************)
EXTENDS Integers, Sequences, FiniteSets, TLC

(* ------------------------------------------------------------------ *)
(* Python str operations used by the sources                           *)
(* ------------------------------------------------------------------ *)

SetMin(S) == CHOOSE x \in S : \A y \in S : x <= y

SetMax(S) == CHOOSE x \in S : \A y \in S : x >= y

\* s[i:j] with 0 <= i and 0 <= j
Slice(s, i, j) ==
    LET hi == IF j > Len(s) THEN Len(s) ELSE j
    IN  IF hi <= i THEN <<>> ELSE SubSeq(s, i + 1, hi)

\* s[i:]
SliceFrom(s, i) == Slice(s, i, Len(s))

\* s.find(c, start) for a one-character c
Find(s, c, start) ==
    LET hits == {i \in start..(Len(s) - 1) : s[i + 1] = c}
    IN  IF hits = {} THEN -1 ELSE SetMin(hits)

\* s.rfind(c) for a one-character c
RFind(s, c) ==
    LET hits == {i \in 0..(Len(s) - 1) : s[i + 1] = c}
    IN  IF hits = {} THEN -1 ELSE SetMax(hits)

\* sub in s
Contains(s, sub) ==
    \E i \in 0..(Len(s) - Len(sub)) : Slice(s, i, i + Len(sub)) = sub

\* s.endswith(suffix)
EndsWith(s, suffix) ==
    Len(s) >= Len(suffix) /\ Slice(s, Len(s) - Len(suffix), Len(s)) = suffix

\* s.lstrip(chars)
LStrip(s, chars) ==
    LET keep == {i \in 1..Len(s) : s[i] \notin chars}
    IN  IF keep = {} THEN <<>> ELSE SubSeq(s, SetMin(keep), Len(s))

\* s.rstrip(chars)
RStrip(s, chars) ==
    LET keep == {i \in 1..Len(s) : s[i] \notin chars}
    IN  IF keep = {} THEN <<>> ELSE SubSeq(s, 1, SetMax(keep))

\* s.strip(chars)
Strip(s, chars) == LStrip(RStrip(s, chars), chars)

\* the characters str.strip() and str.split() treat as whitespace
Whitespace == {" ", "\t", "\n", "\r", "\f"}

\* the line boundaries of str.splitlines()
LineBreaks == {"\n", "\r", "\f"}

\* s.split(): the maximal runs of non-whitespace characters
RECURSIVE Split(_)
Split(s) ==
    LET t == LStrip(s, Whitespace)
    IN  IF t = <<>> THEN <<>>
        ELSE LET ws == {i \in 1..Len(t) : t[i] \in Whitespace}
                 e  == IF ws = {} THEN Len(t) + 1 ELSE SetMin(ws)
             IN  <<SubSeq(t, 1, e - 1)>> \o Split(SubSeq(t, e, Len(t)))

\* s.splitlines(): "\r\n" is one boundary, no empty last line
RECURSIVE SplitLines(_)
SplitLines(s) ==
    IF s = <<>> THEN <<>>
    ELSE LET br == {i \in 1..Len(s) : s[i] \in LineBreaks}
         IN  IF br = {} THEN <<s>>
             ELSE LET b == SetMin(br)
                      n == IF s[b] = "\r" /\ b < Len(s) /\ s[b + 1] = "\n"
                           THEN b + 2 ELSE b + 1
                  IN  <<SubSeq(s, 1, b - 1)>> \o SplitLines(SubSeq(s, n, Len(s)))

\* s.split(c, 1)[1] for a one-character c that occurs in s
AfterFirst(s, c) == SliceFrom(s, Find(s, c, 0) + 1)

\* s.split(c, 1)[0] for a one-character c that occurs in s
BeforeFirst(s, c) == Slice(s, 0, Find(s, c, 0))

\* s.rsplit(c, 1)[-1] for a one-character c
AfterLast(s, c) == SliceFrom(s, RFind(s, c) + 1)

\* the characters of the model in code-point order
Chars ==
    <<"\t", "\n", "\f", "\r", " ", "#", "(", ")", "+", "-", ".", "/",
      "0", "1", "2", "3", "4", "5", "6", "7", "8", "9", ":", ";", "?", "@",
      "A", "B", "C", "D", "E", "F", "G", "H", "I", "J", "K", "L", "M",
      "N", "O", "P", "Q", "R", "S", "T", "U", "V", "W", "X", "Y", "Z",
      "[", "]", "_",
      "a", "b", "c", "d", "e", "f", "g", "h", "i", "j", "k", "l", "m",
      "n", "o", "p", "q", "r", "s", "t", "u", "v", "w", "x", "y", "z">>

\* ord(c)
Ord(c) == CHOOSE i \in 1..Len(Chars) : Chars[i] = c

UpperLetters ==
    <<"A", "B", "C", "D", "E", "F", "G", "H", "I", "J", "K", "L", "M",
      "N", "O", "P", "Q", "R", "S", "T", "U", "V", "W", "X", "Y", "Z">>

LowerLetters ==
    <<"a", "b", "c", "d", "e", "f", "g", "h", "i", "j", "k", "l", "m",
      "n", "o", "p", "q", "r", "s", "t", "u", "v", "w", "x", "y", "z">>

Digits == <<"0", "1", "2", "3", "4", "5", "6", "7", "8", "9">>

Range(f) == {f[i] : i \in DOMAIN f}

\* s.lower()
Lower(s) ==
    [i \in 1..Len(s) |->
        IF s[i] \in Range(UpperLetters)
        THEN LowerLetters[CHOOSE k \in 1..Len(UpperLetters) : UpperLetters[k] = s[i]]
        ELSE s[i]]

\* a < b on str: lexicographic by code point
StrLess(a, b) ==
    \E i \in 1..Len(b) :
        /\ \A j \in 1..(i - 1) : j <= Len(a) /\ a[j] = b[j]
        /\ (i > Len(a) \/ Ord(a[i]) < Ord(b[i]))

\* the value of a string of decimal digits
RECURSIVE DigitsValue(_)
DigitsValue(s) ==
    IF s = <<>> THEN 0
    ELSE 10 * DigitsValue(SubSeq(s, 1, Len(s) - 1))
         + (CHOOSE d \in 0..9 : Digits[d + 1] = s[Len(s)])

\* int(s): [ok |-> FALSE] is ValueError.  An optional sign, then digits
\* that single underscores may separate.
PyInt(s) ==
    LET t    == Strip(s, Whitespace)
        neg  == t # <<>> /\ t[1] = "-"
        body == IF t # <<>> /\ t[1] \in {"+", "-"} THEN Tail(t) ELSE t
        good == /\ body # <<>>
                /\ \A i \in 1..Len(body) : body[i] \in Range(Digits) \cup {"_"}
                /\ body[1] # "_" /\ body[Len(body)] # "_"
                /\ \A i \in 1..(Len(body) - 1) : ~(body[i] = "_" /\ body[i + 1] = "_")
        val  == DigitsValue(SelectSeq(body, LAMBDA c : c # "_"))
    IN  IF good THEN [ok |-> TRUE, val |-> IF neg THEN 0 - val ELSE val]
        ELSE [ok |-> FALSE, val |-> 0]

RECURSIVE NatStr(_)
NatStr(n) ==
    IF n < 10 THEN <<Digits[n + 1]>>
    ELSE NatStr(n \div 10) \o <<Digits[(n % 10) + 1]>>

\* str(n) for an int, as an f-string renders it
IntStr(n) == IF n < 0 THEN <<"-">> \o NatStr(0 - n) ELSE NatStr(n)

(* ------------------------------------------------------------------ *)
(* String constants of the sources                                     *)
(* ------------------------------------------------------------------ *)

S_true == <<"t", "r", "u", "e">>

S_fetch == <<"f", "e", "t", "c", "h">>

S_origin == <<"o", "r", "i", "g", "i", "n">>

S_dotgit == <<".", "g", "i", "t">>

S_schemesep == <<":", "/", "/">>

\* urllib.parse.uses_params
uses_params ==
    { <<>>,
      <<"f", "t", "p">>, <<"h", "d", "l">>,
      <<"p", "r", "o", "s", "p", "e", "r", "o">>,
      <<"h", "t", "t", "p">>, <<"i", "m", "a", "p">>,
      <<"h", "t", "t", "p", "s">>, <<"s", "h", "t", "t", "p">>,
      <<"r", "t", "s", "p">>, <<"r", "t", "s", "p", "s">>,
      <<"r", "t", "s", "p", "u">>, <<"s", "i", "p">>, <<"s", "i", "p", "s">>,
      <<"m", "m", "s">>, <<"s", "f", "t", "p">>, <<"t", "e", "l">> }

\* urllib.parse.scheme_chars
scheme_chars == Range(LowerLetters) \cup Range(UpperLetters) \cup Range(Digits) \cup {"+", "-", "."}

\* urllib.parse._WHATWG_C0_CONTROL_OR_SPACE, as far as Chars has them
C0ControlOrSpace == {"\t", "\n", "\f", "\r", " "}

\* urllib.parse._UNSAFE_URL_BYTES_TO_REMOVE
UnsafeUrlBytes == {"\t", "\r", "\n"}

HexDigits == Range(Digits) \cup {"a", "b", "c", "d", "e", "f", "A", "B", "C", "D", "E", "F"}

(* ------------------------------------------------------------------ *)
(* urllib.parse.urlparse, which repo_name_from_url calls               *)
(* ------------------------------------------------------------------ *)

\* ipaddress.ip_address(hostname) returns an IPv6Address.  The bracketed
\* hosts of the URLs drawn here are "::1", which is one, and plain names,
\* which are no address at all.
IsIPv6Address(hostname) == hostname = <<":", ":", "1">>

\* urllib.parse._check_bracketed_host: TRUE when it returns, FALSE when it
\* raises ValueError
check_bracketed_host(hostname) ==
    IF hostname # <<>> /\ hostname[1] = "v"
    THEN \E d \in 3..(Len(hostname) - 1) :
            /\ hostname[d] = "."
            /\ \A i \in 2..(d - 1) : hostname[i] \in HexDigits
    ELSE IsIPv6Address(hostname)

\* urllib.parse._splitparams(url)[0]
splitparams(url) ==
    LET i == IF Find(url, "/", 0) >= 0
             THEN Find(url, ";", RFind(url, "/"))
             ELSE Find(url, ";", 0)
    IN  IF i < 0 THEN url ELSE Slice(url, 0, i)

\* urlsplit: url.lstrip(_WHATWG_C0_CONTROL_OR_SPACE), then the unsafe bytes
\* removed
url_cleaned(url) ==
    SelectSeq(LStrip(url, C0ControlOrSpace), LAMBDA c : c \notin UnsafeUrlBytes)

\* urlsplit: whether what precedes the first ":" is a scheme
has_scheme(url) ==
    /\ Find(url, ":", 0) > 0
    /\ url[1] \in Range(LowerLetters) \cup Range(UpperLetters)
    /\ \A k \in 1..Find(url, ":", 0) : url[k] \in scheme_chars

\* urlsplit: scheme
url_scheme(url) == IF has_scheme(url) THEN Lower(BeforeFirst(url, ":")) ELSE <<>>

\* urlsplit: url once the scheme is taken off
url_after_scheme(url) == IF has_scheme(url) THEN AfterFirst(url, ":") ELSE url

\* urlsplit: if url[:2] == '//'
has_netloc(url) == Slice(url, 0, 2) = <<"/", "/">>

\* urllib.parse._splitnetloc(url, 2): delim
netloc_end(url) ==
    LET delims == {Find(url, c, 2) : c \in {"/", "?", "#"}} \ {-1}
    IN  IF delims = {} THEN Len(url) ELSE SetMin(delims)

\* urlsplit: netloc
url_netloc(url) == IF has_netloc(url) THEN Slice(url, 2, netloc_end(url)) ELSE <<>>

\* urlsplit: url once the netloc is taken off
url_after_netloc(url) == IF has_netloc(url) THEN SliceFrom(url, netloc_end(url)) ELSE url

\* urlsplit: the two checks of the netloc that raise ValueError
netloc_invalid(netloc) ==
    \/ ("[" \in Range(netloc)) # ("]" \in Range(netloc))
    \/ /\ "[" \in Range(netloc)
       /\ "]" \in Range(netloc)
       /\ ~check_bracketed_host(BeforeFirst(AfterFirst(netloc, "["), "]"))

\* s.split(c, 1)[0] whether or not c occurs in s
UpTo(s, c) == IF Find(s, c, 0) >= 0 THEN BeforeFirst(s, c) ELSE s

\* urlsplit and urlparse: the path: the fragment, the query and, for a
\* scheme of uses_params, the params taken off
url_path(scheme, url) ==
    IF scheme \in uses_params /\ Find(UpTo(UpTo(url, "#"), "?"), ";", 0) >= 0
    THEN splitparams(UpTo(UpTo(url, "#"), "?"))
    ELSE UpTo(UpTo(url, "#"), "?")

\* the ParseResult of a scheme and what follows it
parse_result(scheme, url) ==
    IF netloc_invalid(url_netloc(url))
    THEN [ok |-> FALSE, scheme |-> <<>>, netloc |-> <<>>, path |-> <<>>]
    ELSE [ok |-> TRUE, scheme |-> scheme, netloc |-> url_netloc(url),
          path |-> url_path(scheme, url_after_netloc(url))]

\* urlparse of a cleaned url
urlparse_cleaned(url) == parse_result(url_scheme(url), url_after_scheme(url))

\* urllib.parse.urlparse(url): [ok |-> FALSE] is ValueError, otherwise the
\* scheme, netloc and path of the ParseResult
urlparse(url) == urlparse_cleaned(url_cleaned(url))

(* ------------------------------------------------------------------ *)
(* list_sibling_repos.py: the pure functions                           *)
(* ------------------------------------------------------------------ *)

\* repo_name_from_url: if repo.endswith(".git"): repo = repo[:-4]
strip_dotgit(repo) ==
    IF EndsWith(repo, S_dotgit) THEN Slice(repo, 0, Len(repo) - 4) ELSE repo

\* repo_name_from_url: from path_part on
repo_of_path_part(path_part) ==
    [ok |-> TRUE, name |-> strip_dotgit(AfterLast(path_part, "/"))]

\* repo_name_from_url: the branch of "://", given what urlparse did
repo_of_parsed(parsed) ==
    IF parsed.ok THEN repo_of_path_part(LStrip(parsed.path, {"/"}))
    ELSE [ok |-> FALSE, name |-> <<>>]

\* repo_name_from_url: from trimmed on
repo_of_trimmed(trimmed) ==
    IF Contains(trimmed, S_schemesep) THEN repo_of_parsed(urlparse(trimmed))
    ELSE IF Find(trimmed, ":", 0) >= 0
         THEN repo_of_path_part(AfterFirst(trimmed, ":"))
         ELSE repo_of_path_part(trimmed)

\* repo_name_from_url(url): [ok |-> FALSE] is the ValueError urlparse raises
repo_name_from_url(url) == repo_of_trimmed(RStrip(url, {"/"}))

\* a dict is the sequence of its items in insertion order
HasKey(d, k) == \E i \in 1..Len(d) : d[i].name = k

Get(d, k) == d[CHOOSE i \in 1..Len(d) : d[i].name = k].url

Keys(d) == {d[i].name : i \in 1..Len(d)}

\* the loop of fetch_remotes without "and name not in remotes": a later
\* fetch line replaces the URL of its name
RECURSIVE fetch_remotes_lines_last_wins(_, _)
fetch_remotes_lines_last_wins(lines, remotes) ==
    IF lines = <<>> THEN remotes
    ELSE LET parts == Split(Head(lines))
         IN  IF Len(parts) < 3 THEN fetch_remotes_lines_last_wins(Tail(lines), remotes)
             ELSE IF Strip(parts[3], {"(", ")"}) = S_fetch
                  THEN fetch_remotes_lines_last_wins(Tail(lines),
                           IF HasKey(remotes, parts[1])
                           THEN [i \in 1..Len(remotes) |->
                                    IF remotes[i].name = parts[1]
                                    THEN [name |-> parts[1], url |-> parts[2]]
                                    ELSE remotes[i]]
                           ELSE Append(remotes, [name |-> parts[1], url |-> parts[2]]))
                  ELSE fetch_remotes_lines_last_wins(Tail(lines), remotes)

\* the loop of fetch_remotes over the lines of stdout
RECURSIVE fetch_remotes_lines(_, _)
fetch_remotes_lines(lines, remotes) ==
    IF lines = <<>> THEN remotes
    ELSE LET parts == Split(Head(lines))
         IN  IF Len(parts) < 3 THEN fetch_remotes_lines(Tail(lines), remotes)
             ELSE LET name      == parts[1]
                      url       == parts[2]
                      direction == Strip(parts[3], {"(", ")"})
                  IN  IF direction = S_fetch /\ ~HasKey(remotes, name)
                      THEN fetch_remotes_lines(Tail(lines),
                               Append(remotes, [name |-> name, url |-> url]))
                      ELSE fetch_remotes_lines(Tail(lines), remotes)

\* fetch_remotes(path), given what run_git(["remote", "-v"], path) returned
fetch_remotes(result) ==
    IF result.returncode # 0 THEN <<>>
    ELSE fetch_remotes_lines(SplitLines(result.stdout), <<>>)

\* min(keys) of a non-empty set of str: sorted(keys)[0]
FirstKey(keys) == CHOOSE k \in keys : \A o \in keys \ {k} : StrLess(k, o)

\* primary_remote without the preference for "origin"
primary_remote_alphabetical(remotes) ==
    IF remotes = <<>> THEN [some |-> FALSE, name |-> <<>>, url |-> <<>>]
    ELSE [some |-> TRUE, name |-> FirstKey(Keys(remotes)),
          url |-> Get(remotes, FirstKey(Keys(remotes)))]

\* primary_remote(remotes): [some |-> FALSE] is (None, None)
primary_remote(remotes) ==
    IF remotes = <<>> THEN [some |-> FALSE, name |-> <<>>, url |-> <<>>]
    ELSE IF HasKey(remotes, S_origin)
         THEN [some |-> TRUE, name |-> S_origin, url |-> Get(remotes, S_origin)]
         ELSE [some |-> TRUE, name |-> FirstKey(Keys(remotes)),
               url |-> Get(remotes, FirstKey(Keys(remotes)))]

\* is_git_repo without the comparison of stdout: a bare repository passes
is_git_repo_returncode_only(result) == result.returncode = 0

\* is_git_repo(path), given what run_git(["rev-parse", ...], path) returned
is_git_repo(result) ==
    result.returncode = 0 /\ Strip(result.stdout, Whitespace) = S_true

(* ------------------------------------------------------------------ *)
(* list_repo_changes.py and list_ignored_files.py: the pure functions  *)
(* ------------------------------------------------------------------ *)

\* the value list_ignored returns, given the result of git ls-files
list_ignored_value(result) ==
    IF result.returncode # 0 THEN <<>>
    ELSE SelectSeq(SplitLines(result.stdout),
                   LAMBDA line : Strip(line, Whitespace) # <<>>)

\* the value list_changes returns, given the result of git status
list_changes_value(result) ==
    IF result.returncode # 0 THEN <<>>
    ELSE LET kept == SelectSeq(SplitLines(result.stdout),
                               LAMBDA line : Strip(line, Whitespace) # <<>>)
         IN  [i \in 1..Len(kept) |-> RStrip(kept[i], Whitespace)]

\* get_upstream without "if ref else None": an empty ref is returned as it is
get_upstream_keeps_empty(result) ==
    IF result.returncode # 0 THEN [some |-> FALSE, ref |-> <<>>]
    ELSE [some |-> TRUE, ref |-> Strip(result.stdout, Whitespace)]

\* get_upstream(path): [some |-> FALSE] is None
get_upstream(result) ==
    LET ref == Strip(result.stdout, Whitespace)
    IN  IF result.returncode # 0 \/ ref = <<>>
        THEN [some |-> FALSE, ref |-> <<>>]
        ELSE [some |-> TRUE, ref |-> ref]

\* ahead_behind(path, upstream): [some |-> FALSE] is None
ahead_behind(result) ==
    LET parts == Split(Strip(result.stdout, Whitespace))
    IN  IF result.returncode # 0 \/ Len(parts) # 2
        THEN [some |-> FALSE, ahead |-> 0, behind |-> 0]
        ELSE IF PyInt(parts[1]).ok /\ PyInt(parts[2]).ok
             THEN [some |-> TRUE, ahead |-> PyInt(parts[1]).val,
                   behind |-> PyInt(parts[2]).val]
             ELSE [some |-> FALSE, ahead |-> 0, behind |-> 0]

(* ------------------------------------------------------------------ *)
(* sorted(iterable, key=...)                                           *)
(* ------------------------------------------------------------------ *)

\* the order of two sort keys (rank, str), as Python orders tuples
KeyLess(x, y) == x.rank < y.rank \/ (x.rank = y.rank /\ StrLess(x.key, y.key))

\* one step of the stable sort: x goes behind every item not greater than it
InsertSorted(done, x) ==
    LET after == {i \in 1..Len(done) : KeyLess(x, done[i])}
        pos   == IF after = {} THEN Len(done) + 1 ELSE SetMin(after)
    IN  SubSeq(done, 1, pos - 1) \o <<x>> \o SubSeq(done, pos, Len(done))

\* sorted(items, key=...) over items that carry their key: stable
RECURSIVE Sorted(_)
Sorted(items) ==
    IF items = <<>> THEN <<>>
    ELSE InsertSorted(Sorted(SubSeq(items, 1, Len(items) - 1)), items[Len(items)])

\* key=lambda p: p.name.lower()
EntryKey(entry) == [rank |-> 0, key |-> Lower(entry.name), item |-> entry]

\* sorted(parent.iterdir(), key=lambda p: p.name.lower())
sorted_entries(listing) ==
    LET keyed  == [i \in 1..Len(listing) |-> EntryKey(listing[i])]
        sorted == Sorted(keyed)
    IN  [i \in 1..Len(sorted) |-> sorted[i].item]

\* key=lambda item: (0 if item[0] == "origin" else 1, item[0])
RemoteKey(item) ==
    [rank |-> IF item.name = S_origin THEN 0 ELSE 1, key |-> item.name, item |-> item]

\* sorted(remotes.items(), key=...)
sorted_remotes(remotes) ==
    LET keyed  == [i \in 1..Len(remotes) |-> RemoteKey(remotes[i])]
        sorted == Sorted(keyed)
    IN  [i \in 1..Len(sorted) |-> sorted[i].item]

(* ------------------------------------------------------------------ *)
(* The text the reporters write                                        *)
(* ------------------------------------------------------------------ *)

\* "  - "
S_bullet == <<" ", " ", "-", " ">>

\* f"  - {item}" for every item
BulletLines(items) == [i \in 1..Len(items) |-> S_bullet \o items[i]]

S_no_ignored ==
    <<" ", " ", "(", "n", "o", " ", "i", "g", "n", "o", "r", "e", "d", " ",
      "f", "i", "l", "e", "s", ")">>

S_clean == <<" ", " ", "(", "c", "l", "e", "a", "n", ")">>

S_no_remotes == <<" ", " ", "(", "n", "o", " ", "r", "e", "m", "o", "t", "e", "s", ")">>

S_upstream == <<" ", " ", "u", "p", "s", "t", "r", "e", "a", "m", ":", " ">>

\* " (差分を取得できませんでした)"
S_no_counts ==
    <<" ", "(", "u5DEE", "u5206", "u3092", "u53D6", "u5F97", "u3067", "u304D",
      "u307E", "u305B", "u3093", "u3067", "u3057", "u305F", ")">>

\* "  upstream: (なし)"
S_no_upstream == S_upstream \o <<"(", "u306A", "u3057", ")">>

\* f"  upstream: {upstream} (ahead {ahead}, behind {behind})"
UpstreamCountsLine(upstream, counts) ==
    S_upstream \o upstream \o <<" ", "(", "a", "h", "e", "a", "d", " ">>
        \o IntStr(counts.ahead) \o <<",", " ", "b", "e", "h", "i", "n", "d", " ">>
        \o IntStr(counts.behind) \o <<")">>

\* f"  upstream: {upstream} (差分を取得できませんでした)"
UpstreamNoCountsLine(upstream) == S_upstream \o upstream \o S_no_counts

\* f"  - {name}: {url}" for every remote
RemoteLines(items) ==
    [i \in 1..Len(items) |-> S_bullet \o items[i].name \o <<":", " ">> \o items[i].url]

\* the warning of list_sibling_repos
WarningText(folder, expected, pri_name) ==
    <<"W", "A", "R", "N", "I", "N", "G", ":", " ", "f", "o", "l", "d", "e", "r", " ", "'">>
        \o folder
        \o <<"'", " ", "d", "i", "f", "f", "e", "r", "s", " ", "f", "r", "o", "m", " ",
             "d", "e", "f", "a", "u", "l", "t", " ", "c", "l", "o", "n", "e", " ",
             "d", "i", "r", " ", "'">>
        \o expected
        \o <<"'", " ", "(", "r", "e", "m", "o", "t", "e", ":", " ">>
        \o pri_name \o <<")">>

\* f"Parent path is not a directory: {parent}\n"
ParentDiagnostic(parent) ==
    <<"P", "a", "r", "e", "n", "t", " ", "p", "a", "t", "h", " ", "i", "s", " ",
      "n", "o", "t", " ", "a", " ", "d", "i", "r", "e", "c", "t", "o", "r", "y",
      ":", " ">> \o parent \o <<"\n">>

\* f"git ls-files failed in {path}: {result.stderr}"
IgnoredDiagnostic(path, result) ==
    <<"g", "i", "t", " ", "l", "s", "-", "f", "i", "l", "e", "s", " ",
      "f", "a", "i", "l", "e", "d", " ", "i", "n", " ">>
        \o path \o <<":", " ">> \o result.stderr

\* f"git status failed in {path}: {result.stderr}"
StatusDiagnostic(path, result) ==
    <<"g", "i", "t", " ", "s", "t", "a", "t", "u", "s", " ",
      "f", "a", "i", "l", "e", "d", " ", "i", "n", " ">>
        \o path \o <<":", " ">> \o result.stderr

(* ------------------------------------------------------------------ *)
(* The environment: the directory and what git answers                 *)
(* ------------------------------------------------------------------ *)

\* the most entries the parent directory holds
MaxEntries == 2

\* the names of the entries
EntryNames == {<<"w">>, <<"W">>, <<"b">>}

\* str(parent) after resolve()
ParentPath == <<"/", "p">>

\* str(entry): parent / name
EntryPath(entry) == ParentPath \o <<"/">> \o entry.name

\* the directories the parent can be: what iterdir() yields, in its order
Listings ==
    UNION { { l \in [1..n -> [name : EntryNames, is_dir : BOOLEAN]] :
                \A i, j \in 1..n : i # j => l[i].name # l[j].name }
            : n \in 0..MaxEntries }

\* a subprocess.CompletedProcess
Completed(returncode, stdout, stderr) ==
    [returncode |-> returncode, stdout |-> stdout, stderr |-> stderr]

S_fatal == <<"f", "a", "t", "a", "l", "\n">>

\* git rev-parse --is-inside-work-tree: inside, in a bare repository, outside
WorktreeResults ==
    { Completed(0, <<"t", "r", "u", "e", "\n">>, <<>>),
      Completed(0, <<"f", "a", "l", "s", "e", "\n">>, <<>>),
      Completed(128, <<>>, S_fatal) }

\* git ls-files --others -i --exclude-standard
IgnoredResults ==
    { Completed(0, <<>>, <<>>),
      Completed(0, <<"a", ".", "o", "\n", "\n", " ", "b", " ", "\n">>, <<>>),
      Completed(128, <<>>, S_fatal) }

\* git status --porcelain
StatusResults ==
    { Completed(0, <<>>, <<>>),
      Completed(0, <<" ", "M", " ", "f", " ", "\n", "?", "?", " ", "g", "\n">>, <<>>),
      Completed(128, <<>>, S_fatal) }

\* git rev-parse --abbrev-ref --symbolic-full-name @{u}
UpstreamResults ==
    { Completed(0, <<"o", "/", "m", "\n">>, <<>>),
      Completed(0, <<"\n">>, <<>>),
      Completed(128, <<>>, S_fatal) }

\* git rev-list --left-right --count HEAD...upstream
CountsResults ==
    { Completed(0, <<"3", "\t", "0", "\n">>, <<>>),
      Completed(0, <<"x", "\t", "1", "\n">>, <<>>),
      Completed(0, <<"7", "\n">>, <<>>),
      Completed(0, <<"+", "1", " ", "0", "2", "\n">>, <<>>),
      Completed(128, <<>>, S_fatal) }

\* one line of git remote -v
RemoteLine(name, url, direction) ==
    name \o <<"\t">> \o url \o <<" ">> \o direction \o <<"\n">>

D_fetch == <<"(", "f", "e", "t", "c", "h", ")">>

D_push == <<"(", "p", "u", "s", "h", ")">>

U_w_git == <<"h", ":", "/", "/", "e", "/", "w", ".", "g", "i", "t">>

U_ssh_b == <<"g", "@", "e", ":", "o", "/", "b", ".", "g", "i", "t">>

U_bracket == <<"h", ":", "/", "/", "[", "e", "/", "w">>

U_host_only == <<"h", ":", "/", "/", "e">>

\* git remote -v: no remote; origin; origin behind another; no origin;
\* an origin whose URL urlparse rejects; an origin that names no
\* repository; failure
RemoteResults ==
    { Completed(0, <<>>, <<>>),
      Completed(0, RemoteLine(S_origin, U_w_git, D_fetch)
                   \o RemoteLine(S_origin, U_w_git, D_push), <<>>),
      Completed(0, RemoteLine(<<"a">>, U_ssh_b, D_fetch)
                   \o RemoteLine(S_origin, U_w_git, D_fetch), <<>>),
      Completed(0, RemoteLine(<<"z">>, U_w_git, D_fetch)
                   \o RemoteLine(<<"u", "p">>, U_ssh_b, D_fetch), <<>>),
      Completed(0, RemoteLine(S_origin, U_bracket, D_fetch), <<>>),
      Completed(0, RemoteLine(S_origin, U_host_only, D_fetch), <<>>),
      Completed(128, <<>>, S_fatal) }

(* ------------------------------------------------------------------ *)
(* State                                                               *)
(* ------------------------------------------------------------------ *)

VARIABLES
    tool,           \* the reporter that runs: "ignored", "status", "remotes"
    parent_is_dir,  \* parent.is_dir()
    listing,        \* what parent.iterdir() yields
    pc,             \* where the reporter is
    entries,        \* the sorted entries the loop runs over
    idx,            \* the loop's position in entries (in repos, for the second loop)
    repos,          \* list_sibling_repos: repos
    changes,        \* list_repo_changes.main: changes
    upstream,       \* list_repo_changes.main: upstream
    trace,          \* what the process did so far: git calls and writes, in order
    exit_status,    \* -1 while the process runs, then its exit status
    arg,            \* the argument of the function under test
    ret             \* what the function under test returned

vars ==
    <<tool, parent_is_dir, listing, pc, entries, idx, repos, changes, upstream,
      trace, exit_status, arg, ret>>

NoResult == Completed(0, <<>>, <<>>)

\* run_git(args, cwd) returned result
GitEv(query, entry, result) ==
    [ev |-> "git", query |-> query, dir |-> entry.name, result |-> result, text |-> <<>>]

\* print(text)
OutEv(text) ==
    [ev |-> "out", query |-> "", dir |-> <<>>, result |-> NoResult, text |-> text]

\* sys.stderr.write(text), or print(text, file=sys.stderr)
ErrEv(text) ==
    [ev |-> "err", query |-> "", dir |-> <<>>, result |-> NoResult, text |-> text]

\* parent.iterdir()
IterdirEv ==
    [ev |-> "iterdir", query |-> "", dir |-> <<>>, result |-> NoResult, text |-> <<>>]

\* the interpreter's report of an exception nothing caught
TracebackEv ==
    [ev |-> "traceback", query |-> "", dir |-> <<>>, result |-> NoResult, text |-> <<>>]

\* print(line) for every line
OutEvs(lines) == [i \in 1..Len(lines) |-> OutEv(lines[i])]

Tools == {"ignored", "status", "remotes"}

Init ==
    /\ tool \in Tools
    /\ parent_is_dir \in BOOLEAN
    /\ listing \in (IF parent_is_dir THEN Listings ELSE {<<>>})
    /\ pc = "main"
    /\ entries = <<>>
    /\ idx = 1
    /\ repos = <<>>
    /\ changes = <<>>
    /\ upstream = <<>>
    /\ trace = <<>>
    /\ exit_status = -1
    /\ arg = <<>>
    /\ ret = <<>>

(* ------------------------------------------------------------------ *)
(* main(): the parent check and the scan loop, alike in the three      *)
(* ------------------------------------------------------------------ *)

\* main without sys.exit(1): the diagnostic, and the scan goes on
MainBadParentNoExit ==
    /\ pc = "main"
    /\ ~parent_is_dir
    /\ entries' = sorted_entries(listing)
    /\ idx' = 1
    /\ trace' = trace \o <<ErrEv(ParentDiagnostic(ParentPath)), IterdirEv>>
    /\ pc' = "scan"
    /\ UNCHANGED <<tool, parent_is_dir, listing, repos, changes, upstream,
                   exit_status, arg, ret>>

\* main: parent is no directory: the diagnostic and sys.exit(1)
MainBadParent ==
    /\ pc = "main"
    /\ ~parent_is_dir
    /\ trace' = Append(trace, ErrEv(ParentDiagnostic(ParentPath)))
    /\ exit_status' = 1
    /\ pc' = "exited"
    /\ UNCHANGED <<tool, parent_is_dir, listing, entries, idx, repos, changes,
                   upstream, arg, ret>>

\* main: sorted(parent.iterdir(), key=...)
MainSortEntries ==
    /\ pc = "main"
    /\ parent_is_dir
    /\ entries' = sorted_entries(listing)
    /\ idx' = 1
    /\ trace' = Append(trace, IterdirEv)
    /\ pc' = "scan"
    /\ UNCHANGED <<tool, parent_is_dir, listing, repos, changes, upstream,
                   exit_status, arg, ret>>

\* the loop: if not entry.is_dir(): continue
ScanSkipFile ==
    /\ pc = "scan"
    /\ idx <= Len(entries)
    /\ ~entries[idx].is_dir
    /\ idx' = idx + 1
    /\ UNCHANGED <<tool, parent_is_dir, listing, pc, entries, repos, changes,
                   upstream, trace, exit_status, arg, ret>>

\* what follows a positive is_git_repo(entry)
AfterRepoFound(entry) ==
    IF tool = "remotes"
    THEN /\ repos' = Append(repos, entry)
         /\ idx' = idx + 1
         /\ pc' = "scan"
    ELSE /\ pc' = "report"
         /\ UNCHANGED <<repos, idx>>

\* the loop: is_git_repo(entry), by one git call
ScanCheckRepo ==
    /\ pc = "scan"
    /\ idx <= Len(entries)
    /\ entries[idx].is_dir
    /\ \E result \in WorktreeResults :
        /\ trace' = Append(trace, GitEv("worktree", entries[idx], result))
        /\ IF is_git_repo(result)
           THEN AfterRepoFound(entries[idx])
           ELSE /\ idx' = idx + 1
                /\ UNCHANGED <<pc, repos>>
    /\ UNCHANGED <<tool, parent_is_dir, listing, entries, changes, upstream,
                   exit_status, arg, ret>>

\* the loop is over: list_ignored_files and list_repo_changes return, and
\* list_sibling_repos goes on to its second loop
ScanDone ==
    /\ pc = "scan"
    /\ idx > Len(entries)
    /\ IF tool = "remotes"
       THEN /\ pc' = "repos"
            /\ idx' = 1
            /\ UNCHANGED exit_status
       ELSE /\ pc' = "exited"
            /\ exit_status' = 0
            /\ UNCHANGED idx
    /\ UNCHANGED <<tool, parent_is_dir, listing, entries, repos, changes,
                   upstream, trace, arg, ret>>

(* ------------------------------------------------------------------ *)
(* list_ignored_files.py                                               *)
(* ------------------------------------------------------------------ *)

\* list_ignored(path): the diagnostic it writes
list_ignored_writes(path, result) ==
    IF result.returncode # 0 THEN <<ErrEv(IgnoredDiagnostic(path, result))>> ELSE <<>>

\* main: the body of the loop for a repository
IgnoredReport ==
    /\ pc = "report"
    /\ tool = "ignored"
    /\ \E result \in IgnoredResults :
        LET entry   == entries[idx]
            ignored == list_ignored_value(result)
        IN  trace' = trace
                \o <<GitEv("ignored", entry, result)>>
                \o list_ignored_writes(EntryPath(entry), result)
                \o <<OutEv(entry.name)>>
                \o (IF ignored # <<>> THEN OutEvs(BulletLines(ignored))
                    ELSE <<OutEv(S_no_ignored)>>)
                \o <<OutEv(<<>>)>>
    /\ idx' = idx + 1
    /\ pc' = "scan"
    /\ UNCHANGED <<tool, parent_is_dir, listing, entries, repos, changes,
                   upstream, exit_status, arg, ret>>

(* ------------------------------------------------------------------ *)
(* list_repo_changes.py                                                *)
(* ------------------------------------------------------------------ *)

\* list_changes that writes no diagnostic
list_changes_writes_nothing(path, result) == <<>>

\* list_changes(path): the diagnostic it writes
list_changes_writes(path, result) ==
    IF result.returncode # 0 THEN <<ErrEv(StatusDiagnostic(path, result))>> ELSE <<>>

\* main: changes = list_changes(entry); print(entry.name)
StatusListChanges ==
    /\ pc = "report"
    /\ tool = "status"
    /\ \E result \in StatusResults :
        /\ changes' = list_changes_value(result)
        /\ trace' = trace
                \o <<GitEv("status", entries[idx], result)>>
                \o list_changes_writes(EntryPath(entries[idx]), result)
                \o <<OutEv(entries[idx].name)>>
    /\ pc' = "upstream"
    /\ UNCHANGED <<tool, parent_is_dir, listing, entries, idx, repos, upstream,
                   exit_status, arg, ret>>

\* main: the end of the loop body: the changes and the blank line
ChangesBlock(lines) ==
    (IF lines # <<>> THEN OutEvs(BulletLines(lines)) ELSE <<OutEv(S_clean)>>)
        \o <<OutEv(<<>>)>>

\* main: upstream = get_upstream(entry), and the rest of the body when
\* there is none
StatusGetUpstream ==
    /\ pc = "upstream"
    /\ \E result \in UpstreamResults :
        LET got == get_upstream(result)
        IN  IF got.some
            THEN /\ upstream' = got.ref
                 /\ trace' = Append(trace, GitEv("upstream", entries[idx], result))
                 /\ pc' = "counts"
                 /\ UNCHANGED <<idx, changes>>
            ELSE /\ trace' = trace
                        \o <<GitEv("upstream", entries[idx], result)>>
                        \o <<OutEv(S_no_upstream)>>
                        \o ChangesBlock(changes)
                 /\ idx' = idx + 1
                 /\ changes' = <<>>   \* dead until the loop assigns it again
                 /\ pc' = "scan"
                 /\ UNCHANGED upstream
    /\ UNCHANGED <<tool, parent_is_dir, listing, entries, repos, exit_status,
                   arg, ret>>

\* main: counts = ahead_behind(entry, upstream), and the rest of the body
StatusAheadBehind ==
    /\ pc = "counts"
    /\ \E result \in CountsResults :
        LET counts == ahead_behind(result)
        IN  trace' = trace
                \o <<GitEv("counts", entries[idx], result)>>
                \o <<OutEv(IF counts.some THEN UpstreamCountsLine(upstream, counts)
                           ELSE UpstreamNoCountsLine(upstream))>>
                \o ChangesBlock(changes)
    /\ idx' = idx + 1
    /\ changes' = <<>>
    /\ upstream' = <<>>
    /\ pc' = "scan"
    /\ UNCHANGED <<tool, parent_is_dir, listing, entries, repos, exit_status,
                   arg, ret>>

(* ------------------------------------------------------------------ *)
(* list_sibling_repos.py                                               *)
(* ------------------------------------------------------------------ *)

\* list_sibling_repos: the name, the remotes and the blank line
RemotesBlock(repo_dir, remotes) ==
    <<OutEv(repo_dir.name)>>
        \o (IF remotes # <<>> THEN OutEvs(RemoteLines(sorted_remotes(remotes)))
            ELSE <<OutEv(S_no_remotes)>>)
        \o <<OutEv(<<>>)>>

\* list_sibling_repos: whether the mismatch check runs: if pri_name and pri_url
MismatchChecked(remotes) ==
    LET pri == primary_remote(remotes)
    IN  pri.some /\ pri.name # <<>> /\ pri.url # <<>>

\* list_sibling_repos: whether repo_name_from_url raises in the mismatch check
MismatchRaises(remotes) ==
    MismatchChecked(remotes) /\ ~repo_name_from_url(primary_remote(remotes).url).ok

\* list_sibling_repos: what the mismatch check writes when nothing is raised
MismatchWrites(repo_dir, remotes) ==
    LET pri      == primary_remote(remotes)
        expected == repo_name_from_url(pri.url).name
    IN  IF MismatchChecked(remotes) /\ expected # <<>> /\ repo_dir.name # expected
        THEN <<ErrEv(WarningText(repo_dir.name, expected, pri.name))>>
        ELSE <<>>

\* list_sibling_repos: the body of the second loop.  The ValueError of
\* urlparse is caught nowhere: the interpreter reports it and exits with 1.
RemotesReport ==
    /\ pc = "repos"
    /\ idx <= Len(repos)
    /\ \E result \in RemoteResults :
        LET repo_dir == repos[idx]
            remotes  == fetch_remotes(result)
            block    == <<GitEv("remotes", repo_dir, result)>>
                            \o RemotesBlock(repo_dir, remotes)
        IN  IF MismatchRaises(remotes)
            THEN /\ trace' = trace \o block \o <<TracebackEv>>
                 /\ exit_status' = 1
                 /\ pc' = "exited"
                 /\ UNCHANGED idx
            ELSE /\ trace' = trace \o block \o MismatchWrites(repo_dir, remotes)
                 /\ idx' = idx + 1
                 /\ UNCHANGED <<pc, exit_status>>
    /\ UNCHANGED <<tool, parent_is_dir, listing, entries, repos, changes,
                   upstream, arg, ret>>

\* list_sibling_repos returns, and main with it
RemotesDone ==
    /\ pc = "repos"
    /\ idx > Len(repos)
    /\ pc' = "exited"
    /\ exit_status' = 0
    /\ UNCHANGED <<tool, parent_is_dir, listing, entries, idx, repos, changes,
                   upstream, trace, arg, ret>>

Next ==
    \/ MainBadParent
    \/ MainSortEntries
    \/ ScanSkipFile
    \/ ScanCheckRepo
    \/ ScanDone
    \/ IgnoredReport
    \/ StatusListChanges
    \/ StatusGetUpstream
    \/ StatusAheadBehind
    \/ RemotesReport
    \/ RemotesDone

Spec == Init /\ [][Next]_vars

(* ------------------------------------------------------------------ *)
(* repo_name_from_url on its own                                       *)
(* ------------------------------------------------------------------ *)

\* "https://example.com/org/widget.git"
U_example_https ==
    <<"h", "t", "t", "p", "s", ":", "/", "/", "e", "x", "a", "m", "p", "l", "e",
      ".", "c", "o", "m", "/", "o", "r", "g", "/", "w", "i", "d", "g", "e", "t",
      ".", "g", "i", "t">>

\* "git@example.com:org/widget.git"
U_example_ssh ==
    <<"g", "i", "t", "@", "e", "x", "a", "m", "p", "l", "e", ".", "c", "o", "m",
      ":", "o", "r", "g", "/", "w", "i", "d", "g", "e", "t", ".", "g", "i", "t">>

\* how a URL starts: nothing, a scheme with params, a scheme without, scp
\* style, a host with one bracket, a bracketed IPv6 host
UrlPrefixes ==
    { <<>>,
      <<"f", "t", "p", ":", "/", "/", "e">>,
      <<"s", ":", "/", "/", "e">>,
      <<"g", "@", "e", ":">>,
      <<"f", "t", "p", ":", "/", "/", "[", "e">>,
      <<"f", "t", "p", ":", "/", "/", "[", ":", ":", "1", "]">> }

UrlMids == { <<>>, <<"/", "o">> }

UrlLasts ==
    { <<>>, <<"/", "w">>, <<"/", "w", ".", "g", "i", "t">>,
      <<"/", "w", ".", "g", "i", "t", ".", "g", "i", "t">>,
      <<"/", ".", "g", "i", "t">> }

UrlExtras == { <<>>, <<"?", "q", "/", "x">>, <<"#", "f">>, <<";", "p">> }

UrlTrails == { <<>>, <<"/">>, <<"/", "/">> }

\* the URLs repo_name_from_url is applied to
UrlInputs ==
    { a \o b \o c \o d \o e :
        a \in UrlPrefixes, b \in UrlMids, c \in UrlLasts, d \in UrlExtras,
        e \in UrlTrails }
    \cup {U_example_https, U_example_ssh}

\* the variables of the reporters, at rest
ReporterIdle ==
    /\ tool = "none"
    /\ parent_is_dir = FALSE
    /\ listing = <<>>
    /\ entries = <<>>
    /\ idx = 1
    /\ repos = <<>>
    /\ changes = <<>>
    /\ upstream = <<>>
    /\ trace = <<>>
    /\ exit_status = -1

InitUrl ==
    /\ ReporterIdle
    /\ pc = "call"
    /\ arg \in UrlInputs
    /\ ret = <<>>

\* expected = repo_name_from_url(pri_url)
CallRepoNameFromUrl ==
    /\ pc = "call"
    /\ ret' = repo_name_from_url(arg)
    /\ pc' = "returned"
    /\ UNCHANGED <<tool, parent_is_dir, listing, entries, idx, repos, changes,
                   upstream, trace, exit_status, arg>>

SpecUrl == InitUrl /\ [][CallRepoNameFromUrl]_vars

(* ------------------------------------------------------------------ *)
(* fetch_remotes on its own                                            *)
(* ------------------------------------------------------------------ *)

\* the most lines git remote -v prints
MaxLines == 2

\* the lines of git remote -v, each as its tokens: every pairing of two
\* names, two URLs and four direction tokens, a line of two tokens, a line
\* of four, and an empty line
RemoteTokenLines ==
    { <<n, u, d>> :
        n \in {S_origin, <<"a">>}, u \in {<<"x">>, <<"y">>},
        d \in {D_fetch, D_push, <<"(", "(", "f", "e", "t", "c", "h", ")">>,
               <<"(", "f", "e", "t", "c", "h", "x", ")">>} }
    \cup { <<S_origin, <<"x">>>>, <<<<"a">>, <<"y">>, D_fetch, <<"x">>>>, <<>> }

\* a line as git writes it: a tab behind the name, then single spaces
RECURSIVE JoinTokens(_, _)
JoinTokens(tokens, k) ==
    IF k > Len(tokens) THEN <<"\n">>
    ELSE (IF k = 1 THEN <<>> ELSE IF k = 2 THEN <<"\t">> ELSE <<" ">>)
         \o tokens[k] \o JoinTokens(tokens, k + 1)

\* the stdout that holds the lines
RECURSIVE JoinLines(_)
JoinLines(lines) ==
    IF lines = <<>> THEN <<>>
    ELSE JoinTokens(Head(lines), 1) \o JoinLines(Tail(lines))

InitRemotes ==
    /\ ReporterIdle
    /\ pc = "call"
    /\ arg \in [returncode : {0, 128},
                lines : UNION {[1..n -> RemoteTokenLines] : n \in 0..MaxLines}]
    /\ ret = <<>>

\* remotes = fetch_remotes(repo_dir)
CallFetchRemotes ==
    /\ pc = "call"
    /\ ret' = fetch_remotes(Completed(arg.returncode, JoinLines(arg.lines), <<>>))
    /\ pc' = "returned"
    /\ UNCHANGED <<tool, parent_is_dir, listing, entries, idx, repos, changes,
                   upstream, trace, exit_status, arg>>

SpecRemotes == InitRemotes /\ [][CallFetchRemotes]_vars

(* ------------------------------------------------------------------ *)
(* What the trace of a run shows                                       *)
(* ------------------------------------------------------------------ *)

IsGit(e, query) == e.ev = "git" /\ e.query = query

\* a line of stdout that names a repository: not blank, not indented
IsNameLine(e) == e.ev = "out" /\ e.text # <<>> /\ e.text[1] # " "

\* the blank line that ends a block
IsBlankLine(e) == e.ev = "out" /\ e.text = <<>>

\* the result says "inside a work tree": exit code 0, trimmed stdout "true"
SaysWorkTree(result) ==
    result.returncode = 0 /\ Strip(result.stdout, Whitespace) = S_true

\* before position i the work-tree check of the entry called name came back positive
PassedCheckBefore(i, name) ==
    \E j \in 1..(i - 1) :
        IsGit(trace[j], "worktree") /\ trace[j].dir = name /\ SaysWorkTree(trace[j].result)

\* the parent holds a directory called name
IsDirectory(name) ==
    \E k \in DOMAIN listing : listing[k].name = name /\ listing[k].is_dir

(* ------------------------------------------------------------------ *)
(* C1                                                                  *)
(* ------------------------------------------------------------------ *)

\* C1: no git query other than the work-tree check is issued against an
\* entry unless the entry is a directory and an earlier work-tree check of
\* it, in this run, returned exit code 0 and trimmed stdout "true"; and
\* every entry whose name is printed has passed that check.
C1_QueriesOnlyAfterPositiveCheck ==
    \A i \in DOMAIN trace :
        /\ (trace[i].ev = "git" /\ trace[i].query # "worktree")
              => IsDirectory(trace[i].dir) /\ PassedCheckBefore(i, trace[i].dir)
        /\ IsNameLine(trace[i])
              => IsDirectory(trace[i].text) /\ PassedCheckBefore(i, trace[i].text)

\* C1 witness: a run that queried and printed one repository and had the
\* check of another directory come back "false" with exit code 0
C1_Witness ==
    /\ \E i \in DOMAIN trace : trace[i].ev = "git" /\ trace[i].query # "worktree"
    /\ \E i \in DOMAIN trace : IsNameLine(trace[i])
    /\ \E i \in DOMAIN trace :
          /\ IsGit(trace[i], "worktree")
          /\ trace[i].result.returncode = 0
          /\ ~SaysWorkTree(trace[i].result)

(* ------------------------------------------------------------------ *)
(* C2                                                                  *)
(* ------------------------------------------------------------------ *)

\* C2: when the parent is no directory the run ends with exit status 1
\* after one diagnostic on the error stream: nothing on stdout, no child
\* enumerated, no git call.
C2_BadParentExitsOne ==
    ~parent_is_dir /\ tool \in Tools =>
        /\ \A i \in DOMAIN trace : trace[i].ev \notin {"out", "git", "iterdir"}
        /\ pc = "exited" =>
              /\ exit_status = 1
              /\ trace = <<ErrEv(ParentDiagnostic(ParentPath))>>

\* C2 witness: a run on a parent that is no directory has ended
C2_Witness == ~parent_is_dir /\ tool \in Tools /\ pc = "exited"

(* ------------------------------------------------------------------ *)
(* C3                                                                  *)
(* ------------------------------------------------------------------ *)

\* the position of the blank line that ends the block position i lies in,
\* 0 when the block is not yet ended
BlockEnd(i) ==
    LET ends == {e \in (i + 1)..Len(trace) : IsBlankLine(trace[e])}
    IN  IF ends = {} THEN 0 ELSE SetMin(ends)

\* something is written to the error stream after the git call at position
\* i and before the next git call
DiagnosticFollows(i) ==
    \E j \in (i + 1)..Len(trace) :
        /\ trace[j].ev = "err"
        /\ \A k \in (i + 1)..(j - 1) : trace[k].ev # "git"

\* the block around the git call at position i ends with the name line and
\* the one line that stands for the empty element
BlockIsEmpty(i, empty_line) ==
    /\ BlockEnd(i) > 2
    /\ trace[BlockEnd(i) - 1] = OutEv(empty_line)
    /\ trace[BlockEnd(i) - 2] = OutEv(trace[i].dir)

\* the data element of the failed query at position i is empty or absent
ElementEmpty(i) ==
    CASE trace[i].query = "ignored" -> BlockIsEmpty(i, S_no_ignored)
      [] trace[i].query = "remotes" -> BlockIsEmpty(i, S_no_remotes)
      [] trace[i].query = "status"  ->
            BlockEnd(i) > 0 => trace[BlockEnd(i) - 1] = OutEv(S_clean)
      [] trace[i].query = "counts"  ->
            /\ i < Len(trace)
            /\ trace[i + 1] = OutEv(S_upstream
                                    \o Strip(trace[i - 1].result.stdout, Whitespace)
                                    \o S_no_counts)
      [] OTHER -> FALSE

\* the git call at position i is a data query that exited nonzero
FailedQuery(i, queries) ==
    /\ trace[i].ev = "git"
    /\ trace[i].query \in queries
    /\ trace[i].result.returncode # 0

\* C3 as claimed: whenever the ignored-files, status, remote list or
\* divergence query exits nonzero, a diagnostic is written to the error
\* stream and the data element is empty or absent.
C3_Original ==
    \A i \in DOMAIN trace :
        FailedQuery(i, {"ignored", "status", "remotes", "counts"})
            => DiagnosticFollows(i) /\ ElementEmpty(i)

\* the diagnostic of the failed query at position i: it names the path of
\* the repository and carries the captured stderr
DiagnosticAt(i, text) ==
    /\ i < Len(trace)
    /\ trace[i + 1] = ErrEv(text \o ParentPath \o <<"/">> \o trace[i].dir
                            \o <<":", " ">> \o trace[i].result.stderr)

\* C3 as amended: a failing ignored-files or status query writes its
\* diagnostic and leaves an empty list; a failing remote list or divergence
\* query leaves its element empty or absent and writes nothing to the error
\* stream; a failing upstream resolution writes nothing either and prints
\* the no-upstream line.
C3_Amended ==
    \A i \in DOMAIN trace :
        /\ FailedQuery(i, {"ignored"}) =>
              /\ DiagnosticAt(i, <<"g", "i", "t", " ", "l", "s", "-", "f", "i", "l",
                                   "e", "s", " ", "f", "a", "i", "l", "e", "d", " ",
                                   "i", "n", " ">>)
              /\ ElementEmpty(i)
        /\ FailedQuery(i, {"status"}) =>
              /\ DiagnosticAt(i, <<"g", "i", "t", " ", "s", "t", "a", "t", "u", "s",
                                   " ", "f", "a", "i", "l", "e", "d", " ", "i", "n",
                                   " ">>)
              /\ ElementEmpty(i)
        /\ FailedQuery(i, {"remotes", "counts"}) =>
              ~DiagnosticFollows(i) /\ ElementEmpty(i)
        /\ FailedQuery(i, {"upstream"}) =>
              /\ ~DiagnosticFollows(i)
              /\ i < Len(trace)
              /\ trace[i + 1] = OutEv(S_no_upstream)

\* C3 witness: one run in which the status query of one repository failed
\* and the divergence query of a repository failed, both blocks printed
C3_Witness ==
    /\ pc = "exited"
    /\ \E i \in DOMAIN trace : FailedQuery(i, {"status"})
    /\ \E i \in DOMAIN trace : FailedQuery(i, {"counts"})

(* ------------------------------------------------------------------ *)
(* C5                                                                  *)
(* ------------------------------------------------------------------ *)

\* the stdout of the divergence query parses as exactly two integers
TwoIntegers(stdout) ==
    /\ Len(Split(Strip(stdout, Whitespace))) = 2
    /\ PyInt(Split(Strip(stdout, Whitespace))[1]).ok
    /\ PyInt(Split(Strip(stdout, Whitespace))[2]).ok

\* "  upstream: <ref> (ahead <n>, behind <n>)" for the two integers of stdout
AheadBehindForm(ref, stdout) ==
    <<" ", " ", "u", "p", "s", "t", "r", "e", "a", "m", ":", " ">> \o ref
        \o <<" ", "(", "a", "h", "e", "a", "d", " ">>
        \o IntStr(PyInt(Split(Strip(stdout, Whitespace))[1]).val)
        \o <<",", " ", "b", "e", "h", "i", "n", "d", " ">>
        \o IntStr(PyInt(Split(Strip(stdout, Whitespace))[2]).val)
        \o <<")">>

\* "  upstream: <ref> <label>"
LabelForm(ref, label) ==
    <<" ", " ", "u", "p", "s", "t", "r", "e", "a", "m", ":", " ">> \o ref \o label

\* the upstream resolved: exit code 0 and a non-empty trimmed ref
Resolved(result) ==
    result.returncode = 0 /\ Strip(result.stdout, Whitespace) # <<>>

\* behind the name line at position n come the upstream resolution and,
\* directly after the name on stdout, the one line that the outcome of the
\* resolution and of the divergence query calls for
UpstreamLineAfter(n, unavailable, none) ==
    n < Len(trace) =>
        /\ IsGit(trace[n + 1], "upstream")
        /\ trace[n + 1].dir = trace[n].text
        /\ IF ~Resolved(trace[n + 1].result)
           THEN /\ n + 2 <= Len(trace)
                /\ trace[n + 2] = OutEv(LabelForm(<<>>, none))
           ELSE n + 2 <= Len(trace) =>
                /\ IsGit(trace[n + 2], "counts")
                /\ n + 3 <= Len(trace)
                /\ trace[n + 3] =
                      OutEv(IF /\ trace[n + 2].result.returncode = 0
                               /\ TwoIntegers(trace[n + 2].result.stdout)
                            THEN AheadBehindForm(
                                     Strip(trace[n + 1].result.stdout, Whitespace),
                                     trace[n + 2].result.stdout)
                            ELSE LabelForm(
                                     Strip(trace[n + 1].result.stdout, Whitespace) \o <<" ">>,
                                     unavailable))

\* the three forms, with the two labels as given, and no exception
UpstreamLines(unavailable, none) ==
    tool = "status" =>
        /\ \A n \in DOMAIN trace :
              IsNameLine(trace[n]) => UpstreamLineAfter(n, unavailable, none)
        /\ \A n \in DOMAIN trace : trace[n].ev # "traceback"
        /\ pc = "exited" /\ parent_is_dir => exit_status = 0

\* C5 as claimed: the line after the repo name is
\* "  upstream: <ref> (ahead <n>, behind <n>)", "  upstream: <ref> (unavailable)"
\* or "  upstream: (none)", as the upstream and the divergence query came
\* out, and no exception is raised.
C5_Original ==
    UpstreamLines(<<"(", "u", "n", "a", "v", "a", "i", "l", "a", "b", "l", "e", ")">>,
                  <<"(", "n", "o", "n", "e", ")">>)

\* C5 as amended: the same three forms, where the label of the second is
\* "(差分を取得できませんでした)" and that of the third is "(なし)".
C5_Amended ==
    UpstreamLines(<<"(", "u5DEE", "u5206", "u3092", "u53D6", "u5F97", "u3067",
                    "u304D", "u307E", "u305B", "u3093", "u3067", "u3057", "u305F", ")">>,
                  <<"(", "u306A", "u3057", ")">>)

\* C5 witness: a finished run that printed a counted upstream line for one
\* repository and had the divergence query of a repository print no two
\* integers
C5_Witness ==
    /\ tool = "status"
    /\ pc = "exited"
    /\ \E i \in DOMAIN trace :
          /\ IsGit(trace[i], "counts")
          /\ trace[i].result.returncode = 0
          /\ TwoIntegers(trace[i].result.stdout)
    /\ \E i \in DOMAIN trace :
          /\ IsGit(trace[i], "counts")
          /\ trace[i].result.returncode = 0
          /\ ~TwoIntegers(trace[i].result.stdout)

(* ------------------------------------------------------------------ *)
(* C6                                                                  *)
(* ------------------------------------------------------------------ *)

\* a line of at least three tokens whose third, its surrounding
\* parentheses stripped, is "fetch"
IsFetchLine(tokens) ==
    Len(tokens) >= 3 /\ Strip(tokens[3], {"(", ")"}) = S_fetch

\* the positions of the fetch lines of name
FetchLinesOf(lines, name) ==
    {k \in DOMAIN lines : IsFetchLine(lines[k]) /\ lines[k][1] = name}

\* the first tokens of the lines
FirstTokens(lines) == {lines[k][1] : k \in {j \in DOMAIN lines : Len(lines[j]) >= 1}}

\* C6: the map fetch_remotes builds holds a name iff some line of at least
\* three tokens has it as first token and "fetch" as third, parentheses
\* stripped; its URL is the second token of the first such line; push lines
\* and later fetch lines add and overwrite nothing.
C6_FirstFetchLineWins ==
    pc = "returned" /\ arg.returncode = 0 =>
        /\ \A name \in FirstTokens(arg.lines) \cup Keys(ret) :
              name \in Keys(ret) <=> FetchLinesOf(arg.lines, name) # {}
        /\ \A i \in DOMAIN ret :
              ret[i].url = arg.lines[SetMin(FetchLinesOf(arg.lines, ret[i].name))][2]
        /\ \A i, j \in DOMAIN ret : ret[i].name = ret[j].name => i = j

\* C6 witness: fetch_remotes returned for an output with two fetch lines of
\* one name that carry different URLs
C6_Witness ==
    /\ pc = "returned"
    /\ arg.returncode = 0
    /\ \E k, l \in DOMAIN arg.lines :
          /\ k < l
          /\ IsFetchLine(arg.lines[k]) /\ IsFetchLine(arg.lines[l])
          /\ arg.lines[k][1] = arg.lines[l][1]
          /\ arg.lines[k][2] # arg.lines[l][2]

(* ------------------------------------------------------------------ *)
(* C7                                                                  *)
(* ------------------------------------------------------------------ *)

\* the primary remote: "origin" if present, else the alphabetically first
ClaimedPrimary(remotes) ==
    IF S_origin \in Keys(remotes) THEN S_origin
    ELSE CHOOSE p \in Keys(remotes) : \A o \in Keys(remotes) \ {p} : StrLess(p, o)

\* a name is inferred from the URL of the primary remote, it is not empty
\* and it differs from the folder
ShouldWarn(folder, remotes) ==
    /\ remotes # <<>>
    /\ repo_name_from_url(Get(remotes, ClaimedPrimary(remotes))).ok
    /\ repo_name_from_url(Get(remotes, ClaimedPrimary(remotes))).name # <<>>
    /\ repo_name_from_url(Get(remotes, ClaimedPrimary(remotes))).name # folder

\* the warning for the folder: it names the folder, the expected name and
\* the remote
ClaimedWarning(folder, remotes) ==
    ErrEv(WarningText(folder,
                      repo_name_from_url(Get(remotes, ClaimedPrimary(remotes))).name,
                      ClaimedPrimary(remotes)))

\* the block of the remote list query at position i is complete on stdout,
\* and the warning comes right behind its blank line, or nothing does
WarningBehindBlock(i, remotes) ==
    /\ BlockEnd(i) > i + 2
    /\ trace[i + 1] = OutEv(trace[i].dir)
    /\ \A k \in (i + 1)..BlockEnd(i) : trace[k].ev = "out"
    /\ IF ShouldWarn(trace[i].dir, remotes)
       THEN /\ BlockEnd(i) < Len(trace)
            /\ trace[BlockEnd(i) + 1] = ClaimedWarning(trace[i].dir, remotes)
       ELSE BlockEnd(i) = Len(trace) \/ trace[BlockEnd(i) + 1].ev # "err"

\* C7: a mismatch warning is written iff the remote map is not empty and
\* the name inferred from the primary remote's URL is not empty and differs
\* from the folder name; the primary remote is origin if present, else the
\* alphabetically first; the warning goes to the error stream only, names
\* folder, expected name and remote, and comes after the repository's whole
\* stdout block and before the next repository's name line.
C7_WarningIffMismatch ==
    tool = "remotes" =>
        /\ \A i \in DOMAIN trace :
              IsGit(trace[i], "remotes")
                  => WarningBehindBlock(i, fetch_remotes(trace[i].result))
        /\ \A j \in DOMAIN trace :
              trace[j].ev = "err" /\ parent_is_dir
                  => j > 1 /\ IsBlankLine(trace[j - 1])
        /\ \A j \in DOMAIN trace :
              trace[j].ev = "out" => Slice(trace[j].text, 0, 7) # Slice(WarningText(<<>>, <<>>, <<>>), 0, 7)

\* C7 witness: a finished run that warned about one repository and did not
\* warn about another whose remote map is not empty and holds origin and a
\* name that sorts before it
C7_Witness ==
    /\ tool = "remotes"
    /\ pc = "exited"
    /\ \E j \in DOMAIN trace : trace[j].ev = "err"
    /\ \E i \in DOMAIN trace :
          /\ IsGit(trace[i], "remotes")
          /\ Keys(fetch_remotes(trace[i].result)) = {S_origin, <<"a">>}
          /\ ~ShouldWarn(trace[i].dir, fetch_remotes(trace[i].result))

(* ------------------------------------------------------------------ *)
(* C4                                                                  *)
(* ------------------------------------------------------------------ *)

\* the texts of the events of a sequence
Texts(events) == [i \in 1..Len(events) |-> events[i].text]

\* the repo name lines of stdout, in order
NameLines == Texts(SelectSeq(trace, IsNameLine))

\* stdout, line by line
Stdout == Texts(SelectSeq(trace, LAMBDA e : e.ev = "out"))

\* the directories whose work-tree check came back positive, in the order
\* of the checks
PassedNames ==
    LET passed == SelectSeq(trace, LAMBDA e : IsGit(e, "worktree") /\ SaysWorkTree(e.result))
    IN  [i \in 1..Len(passed) |-> passed[i].dir]

\* stdout is a run of blocks: a name line, body lines, a blank line
BlocksWellFormed ==
    /\ Stdout # <<>> => Stdout[1] # <<>> /\ Stdout[1][1] # " "
    /\ Stdout # <<>> => Stdout[Len(Stdout)] = <<>>
    /\ \A k \in 1..(Len(Stdout) - 1) :
          /\ Stdout[k] = <<>> => Stdout[k + 1] # <<>> /\ Stdout[k + 1][1] # " "
          /\ (Stdout[k] # <<>> /\ Stdout[k][1] # " ")
                => Stdout[k + 1] # <<>> /\ Stdout[k + 1][1] = " "

\* every directory that passed the check has its one block, and the run
\* ended with exit status 0
OneBlockEach ==
    /\ exit_status = 0
    /\ NameLines = PassedNames
    /\ BlocksWellFormed

\* C4 as claimed: given a valid parent, whatever the per-repo queries
\* return, a finished run has printed exactly one block for every child
\* directory that passed the work-tree check and has exit status 0.
C4_Original == parent_is_dir /\ pc = "exited" => OneBlockEach

\* C4 in the runs in which urlparse raises nothing
C4_UnlessUrlparseRaises ==
    /\ parent_is_dir
    /\ pc = "exited"
    /\ \A i \in DOMAIN trace : trace[i].ev # "traceback"
    => OneBlockEach

(* ------------------------------------------------------------------ *)
(* C8                                                                  *)
(* ------------------------------------------------------------------ *)

\* the part of the URL the name is taken from: the URL path component when
\* the trimmed URL holds "://", else what follows the first colon, else all
ClaimedPathPart(trimmed) ==
    IF Contains(trimmed, S_schemesep) THEN urlparse(trimmed).path
    ELSE IF ":" \in Range(trimmed) THEN AfterFirst(trimmed, ":")
         ELSE trimmed

\* seg is the final "/"-delimited segment of part
IsFinalSegment(seg, part) ==
    /\ "/" \notin Range(seg)
    /\ Len(seg) <= Len(part)
    /\ SliceFrom(part, Len(part) - Len(seg)) = seg
    /\ (Len(seg) = Len(part) \/ part[Len(part) - Len(seg)] = "/")

\* name is seg with one trailing ".git" removed
IsWithoutDotGit(name, seg) ==
    IF Len(seg) >= 4 /\ SliceFrom(seg, Len(seg) - 4) = S_dotgit
    THEN name = Slice(seg, 0, Len(seg) - 4)
    ELSE name = seg

\* name is what the claim says repo_name_from_url infers from url
IsClaimedName(name, url) ==
    \E k \in 0..Len(ClaimedPathPart(RStrip(url, {"/"}))) :
        /\ IsFinalSegment(SliceFrom(ClaimedPathPart(RStrip(url, {"/"})), k),
                          ClaimedPathPart(RStrip(url, {"/"})))
        /\ IsWithoutDotGit(name, SliceFrom(ClaimedPathPart(RStrip(url, {"/"})), k))

S_widget == <<"w", "i", "d", "g", "e", "t">>

\* C8 as claimed: for every URL, repo_name_from_url returns the final
\* segment, one trailing ".git" removed, of the URL path component, of what
\* follows the first colon, or of the whole string, trailing slashes
\* stripped first; the two example URLs infer "widget".
C8_Original ==
    pc = "returned" =>
        /\ ret.ok
        /\ IsClaimedName(ret.name, arg)
        /\ arg \in {U_example_https, U_example_ssh} => ret.name = S_widget

\* C8 for the URLs on which urlparse raises nothing
C8_UnlessUrlparseRaises ==
    pc = "returned" /\ ret.ok =>
        /\ IsClaimedName(ret.name, arg)
        /\ arg \in {U_example_https, U_example_ssh} => ret.name = S_widget

(* ------------------------------------------------------------------ *)
(* C9                                                                  *)
(* ------------------------------------------------------------------ *)

IsPrefix(s, t) == Len(s) <= Len(t) /\ SubSeq(t, 1, Len(s)) = s

\* the positions of the listing in the claimed order: by lower-cased name,
\* equal names in the order of the listing
ClaimedOrder ==
    CHOOSE s \in [1..Len(listing) -> 1..Len(listing)] :
        \A a, b \in 1..Len(listing) :
            a < b =>
                \/ StrLess(Lower(listing[s[a]].name), Lower(listing[s[b]].name))
                \/ /\ Lower(listing[s[a]].name) = Lower(listing[s[b]].name)
                   /\ s[a] < s[b]

\* the child directories in the claimed order
ClaimedDirs ==
    LET dirs == SelectSeq([i \in 1..Len(listing) |-> listing[ClaimedOrder[i]]],
                          LAMBDA e : e.is_dir)
    IN  [i \in 1..Len(dirs) |-> dirs[i].name]

\* the directories checked so far, in the order of the checks
CheckedDirs ==
    LET checks == SelectSeq(trace, LAMBDA e : IsGit(e, "worktree"))
    IN  [i \in 1..Len(checks) |-> checks[i].dir]

\* the repositories among the children, in the claimed order
ClaimedRepos ==
    SelectSeq(ClaimedDirs, LAMBDA name : PassedCheckBefore(Len(trace) + 1, name))

\* the position of a name in a sequence of distinct names
PositionIn(names, name) == CHOOSE k \in DOMAIN names : names[k] = name

\* checks, queries and name lines come in the claimed order
InClaimedOrder ==
    /\ IsPrefix(CheckedDirs, ClaimedDirs)
    /\ IsPrefix(NameLines, ClaimedRepos)
    /\ \A i, j \in DOMAIN trace :
          /\ i < j
          /\ trace[i].ev = "git" /\ trace[i].query # "worktree"
          /\ trace[j].ev = "git" /\ trace[j].query # "worktree"
          => PositionIn(ClaimedDirs, trace[i].dir) <= PositionIn(ClaimedDirs, trace[j].dir)

\* C9 as claimed: checks, queries and blocks come in the order of the child
\* directories sorted case-insensitively by name, equal names in
\* enumeration order; the name lines of a finished run are exactly the
\* sorted repositories, none missing, doubled or reordered.
C9_Original ==
    parent_is_dir /\ tool \in Tools =>
        /\ InClaimedOrder
        /\ pc = "exited" => CheckedDirs = ClaimedDirs /\ NameLines = ClaimedRepos

\* C9 in the runs in which urlparse raises nothing
C9_UnlessUrlparseRaises ==
    /\ parent_is_dir /\ tool \in Tools
    /\ \A i \in DOMAIN trace : trace[i].ev # "traceback"
    => /\ InClaimedOrder
       /\ pc = "exited" => CheckedDirs = ClaimedDirs /\ NameLines = ClaimedRepos

(* ------------------------------------------------------------------ *)
(* C10                                                                 *)
(* ------------------------------------------------------------------ *)

\* how often the query ran against the entry called name
Count(query, name) ==
    Cardinality({i \in DOMAIN trace : IsGit(trace[i], query) /\ trace[i].dir = name})

\* the queries a reporter runs once against every repository
QueriesOf(reporter) ==
    CASE reporter = "ignored" -> {"ignored"}
      [] reporter = "status"  -> {"status", "upstream"}
      [] reporter = "remotes" -> {"remotes"}

\* the upstream of the repository called name resolved to a non-empty ref
UpstreamResolved(name) ==
    \E i \in DOMAIN trace :
        IsGit(trace[i], "upstream") /\ trace[i].dir = name /\ Resolved(trace[i].result)

\* no query ran twice, and a query ran only in its reporter
NothingRetried ==
    \A name \in EntryNames :
        /\ \A q \in {"worktree", "ignored", "status", "upstream", "counts", "remotes"} :
              Count(q, name) <= 1
        /\ \A q \in {"ignored", "status", "upstream", "remotes"} :
              q \notin QueriesOf(tool) => Count(q, name) = 0

\* a finished run ran every query it owes exactly once
EveryQueryOnce ==
    \A k \in DOMAIN listing :
        /\ Count("worktree", listing[k].name) = (IF listing[k].is_dir THEN 1 ELSE 0)
        /\ PassedCheckBefore(Len(trace) + 1, listing[k].name) =>
              /\ \A q \in QueriesOf(tool) : Count(q, listing[k].name) = 1
              /\ Count("counts", listing[k].name) =
                    (IF tool = "status" /\ UpstreamResolved(listing[k].name) THEN 1 ELSE 0)

\* C10 as claimed: within a run every query type runs at most once per
\* repository and is never retried: one work-tree check per child
\* directory, and per repository one ignored-files query, one remote list
\* query, or one status query and one upstream resolution followed by one
\* divergence query iff the upstream resolved to a non-empty ref.
C10_Original ==
    parent_is_dir /\ tool \in Tools =>
        /\ NothingRetried
        /\ pc = "exited" => EveryQueryOnce

\* C10 in the runs in which urlparse raises nothing
C10_UnlessUrlparseRaises ==
    /\ parent_is_dir /\ tool \in Tools
    /\ \A i \in DOMAIN trace : trace[i].ev # "traceback"
    => /\ NothingRetried
       /\ pc = "exited" => EveryQueryOnce

====
